---- MODULE Spec2Model ----
(***************************************************************************)
(* Model of src/daily_market_price.py (class MarketDataManager).           *)
(*                                                                         *)
(* Representation                                                          *)
(*   date string 'YYYY-MM-DD'  : a triple <<y, m, d>>; the fixed-width,    *)
(*                               zero-padded string order is the           *)
(*                               lexicographic order of the triple         *)
(*   time series (python dict) : a sequence of <<date, value>> pairs with  *)
(*                               pairwise different dates, in the dict's   *)
(*                               insertion order                           *)
(*   document (python dict)    : a function canonical code -> [name, data] *)
(*   file                      : [kind, doc], kind "absent", "corrupt"     *)
(*                               (content json.load rejects) or "json"     *)
(*   configuration             : a sub-table of the configured classes and *)
(*                               tickers, in the configured order          *)
(***************************************************************************)
EXTENDS Integers, Sequences, FiniteSets, TLC

VARIABLES files, remote, github_token, github_repo,
          pc, idx, is_first_run, today,
          existing_data, start_date, new_data, merged_data,
          files_before, saved, puts, failed, calls, runs,
          m_phase, m_existing, m_new, m_out

vars == <<files, remote, github_token, github_repo,
          pc, idx, is_first_run, today,
          existing_data, start_date, new_data, merged_data,
          files_before, saved, puts, failed, calls, runs,
          m_phase, m_existing, m_new, m_out>>

(* ------------------------------ bounds --------------------------------- *)

MaxRuns == 2

DateSet == { <<2024, 1, 1>>, <<2024, 3, 1>> }

Values == { 100, 101 }

\* the values a download delivers; the files of Init hold the other value
FreshValues == { 101 }

\* the dates the clock can show; it never goes back
TodaySet == { <<2025, 2, 28>>, <<2025, 3, 1>> }

(* --------------------------- configuration ----------------------------- *)

ticker_to_ric ==
  [t \in {"MSFT", "TSM", "DGS10"} |->
     CASE t = "MSFT"  -> "MSFT.O"
       [] t = "TSM"   -> "TSM.N"
       [] t = "DGS10" -> "US10YT=RR"]

market_data ==
  [m \in {"US_Stocks", "US_Rates"} |->
     IF m = "US_Stocks"
     THEN [t \in {"MSFT", "TSM"} |-> IF t = "MSFT" THEN "Microsoft" ELSE "TSMC ADR"]
     ELSE [t \in {"DGS10"} |-> "UST 10Y"]]

MarketOrder == <<"US_Stocks", "US_Rates">>

Markets == DOMAIN market_data

EpochStart == <<2020, 1, 1>>

\* variant: one year instead of five
FallbackDays_oneyear == 365 * 1

FallbackDays == 365 * 5

(* --------------------------- calendar dates ---------------------------- *)

IsLeap(y) == (y % 4 = 0) /\ ((y % 100 # 0) \/ (y % 400 = 0))

DaysInMonth(y, m) ==
  IF m = 2 THEN (IF IsLeap(y) THEN 29 ELSE 28)
  ELSE IF m \in {4, 6, 9, 11} THEN 30 ELSE 31

DaysBeforeYear(y) ==
  (y - 1) * 365 + ((y - 1) \div 4) - ((y - 1) \div 100) + ((y - 1) \div 400)

RECURSIVE DaysBeforeMonth(_, _)
DaysBeforeMonth(y, m) ==
  IF m = 1 THEN 0 ELSE DaysBeforeMonth(y, m - 1) + DaysInMonth(y, m - 1)

\* datetime.strptime(s, '%Y-%m-%d') as a proleptic Gregorian ordinal
strptime(s) == DaysBeforeYear(s[1]) + DaysBeforeMonth(s[1], s[2]) + s[3]

RECURSIVE YearOf(_, _)
YearOf(n, y) == IF DaysBeforeYear(y + 1) < n THEN YearOf(n, y + 1) ELSE y

RECURSIVE MonthOf(_, _, _)
MonthOf(r, y, m) ==
  IF DaysBeforeMonth(y, m) + DaysInMonth(y, m) < r THEN MonthOf(r, y, m + 1) ELSE m

\* datetime.strftime('%Y-%m-%d') of the date with ordinal n
strftime(n) ==
  LET y == YearOf(n, (n \div 366) + 1)
      r == n - DaysBeforeYear(y)
      m == MonthOf(r, y, 1)
  IN  <<y, m, r - DaysBeforeMonth(y, m)>>

\* order of two date strings, as python compares str
StrLess(a, b) ==
  \/ a[1] < b[1]
  \/ a[1] = b[1] /\ a[2] < b[2]
  \/ a[1] = b[1] /\ a[2] = b[2] /\ a[3] < b[3]

(* ----------------------------- time series ----------------------------- *)

Keys(s) == { s[i][1] : i \in 1..Len(s) }

Get(s, k) == LET i == CHOOSE j \in 1..Len(s) : s[j][1] = k IN s[i][2]

\* max(d.keys()) of a non-empty dict
MaxKey(s) == CHOOSE k \in Keys(s) : \A o \in Keys(s) : o = k \/ StrLess(o, k)

\* dict.update: a key already present keeps its position and takes the new
\* value, a new key is appended
RECURSIVE DictUpdate(_, _)
DictUpdate(d, n) ==
  IF n = <<>> THEN d
  ELSE LET k == Head(n)[1]
           d1 == IF k \in Keys(d)
                 THEN [i \in 1..Len(d) |-> IF d[i][1] = k THEN Head(n) ELSE d[i]]
                 ELSE Append(d, Head(n))
       IN  DictUpdate(d1, Tail(n))

RECURSIVE InsertSorted(_, _)
InsertSorted(s, e) ==
  IF s = <<>> THEN <<e>>
  ELSE IF StrLess(e[1], Head(s)[1]) THEN <<e>> \o s
       ELSE <<Head(s)>> \o InsertSorted(Tail(s), e)

\* dict(sorted(d.items()))
RECURSIVE SortedItems(_)
SortedItems(s) ==
  IF s = <<>> THEN <<>> ELSE InsertSorted(SortedItems(Tail(s)), Head(s))

\* variant: the update is applied the wrong way round, the old value wins
merge_data_oldwins(existing, new, ticker) ==
  IF existing = <<>> THEN new
  ELSE SortedItems(DictUpdate(new, existing))

merge_data(existing, new, ticker) ==
  IF existing = <<>> THEN new
  ELSE SortedItems(DictUpdate(existing, new))

\* every dict over DateSet and Values, in every insertion order
RECURSIVE SeriesOver(_)
SeriesOver(D) ==
  {<<>>} \cup UNION { { <<<<d, v>>>> \o s : v \in Values, s \in SeriesOver(D \ {d}) } : d \in D }

AllSeries == SeriesOver(DateSet)

(* ------------------------------ documents ------------------------------ *)

EmptyDoc == <<>>

Absent == [kind |-> "absent", doc |-> EmptyDoc]

Corrupt == [kind |-> "corrupt", doc |-> EmptyDoc]

Json(d) == [kind |-> "json", doc |-> d]

Entry(n, s) == [name |-> n, data |-> s]

\* self.ticker_to_ric.get(ticker, ticker)
RicOf(ticker) ==
  IF ticker \in DOMAIN ticker_to_ric THEN ticker_to_ric[ticker] ELSE ticker

\* the display name of a ticker, the ticker itself when no class lists it
NameOf(ticker) ==
  IF \E m \in Markets : ticker \in DOMAIN market_data[m]
  THEN LET m == CHOOSE k \in Markets : ticker \in DOMAIN market_data[k]
       IN  market_data[m][ticker]
  ELSE ticker

convert_to_ric_format(md) ==
  [r \in { RicOf(t) : t \in DOMAIN md } |->
     LET t == CHOOSE k \in DOMAIN md : RicOf(k) = r
     IN  Entry(NameOf(t), md[t])]

(* ------------------------ process_market, pure parts ------------------- *)

\* variant: the existing document is searched by ticker, not by RIC
old_prices_byticker(existing, ticker) ==
  IF ticker \in DOMAIN existing THEN existing[ticker].data ELSE <<>>

\* existing_data.get(ric, {}).get('data', {})
old_prices(existing, ticker) ==
  LET ric == RicOf(ticker)
  IN  IF ric \in DOMAIN existing THEN existing[ric].data ELSE <<>>

\* the instruments of the existing document with a non-empty series
WithData(existing) == { r \in DOMAIN existing : existing[r].data # <<>> }

\* latest_date of the scan: the largest datetime among the items' max keys
LatestOrdinal(existing) ==
  LET C == { strptime(MaxKey(existing[r].data)) : r \in WithData(existing) }
  IN  CHOOSE n \in C : \A o \in C : o <= n

\* variant: "from the day after the latest date"
StartDateFor_nextday(first, existing, now) ==
  IF first \/ DOMAIN existing = {} THEN EpochStart
  ELSE IF WithData(existing) # {}
       THEN strftime(LatestOrdinal(existing) + 1)
       ELSE strftime(strptime(now) - FallbackDays)

\* the download start date
StartDateFor(first, existing, now) ==
  IF first \/ DOMAIN existing = {} THEN EpochStart
  ELSE IF WithData(existing) # {}
       THEN strftime(LatestOrdinal(existing) - 1)
       ELSE strftime(strptime(now) - FallbackDays)

\* the series a source can deliver for one instrument from start on, in
\* whatever order its rows come
FreshSeries(start) ==
  { s \in AllSeries : /\ s # <<>>
                      /\ \A i \in 1..Len(s) : s[i][2] \in FreshValues
                      /\ \A k \in Keys(s) : ~ StrLess(k, start) }

\* the possible results of a download: every instrument either is missing
\* (failure, no data) or carries a non-empty series
Downloads(tickers, start) ==
  UNION { [T -> FreshSeries(start)] : T \in SUBSET tickers }

download_yfinance_data(market, tickers_dict, start) ==
  Downloads(DOMAIN tickers_dict, start)

download_fred_rates(start) ==
  Downloads(DOMAIN market_data["US_Rates"], start)

DownloadFor(market, start) ==
  IF market = "US_Rates" THEN download_fred_rates(start)
  ELSE download_yfinance_data(market, market_data[market], start)

MergeAll(existing, nd) ==
  [t \in DOMAIN nd |-> merge_data(old_prices(existing, t), nd[t], t)]

\* variant: the document is written whatever the merge produced
ShouldSave_always(merged) == TRUE

\* `if merged_data:`
ShouldSave(merged) == DOMAIN merged # {}

\* variant: the upload is skipped only when both settings are missing
UploadSkipped_and(repo, token) == ~ repo /\ ~ token

\* `if not self.github_repo or not self.github_token:` of upload_to_github
UploadSkipped(repo, token) == ~ repo \/ ~ token

\* `if self.github_repo and self.github_token:` of load_existing_data
RemoteReadable(repo, token) == repo /\ token

\* variant: an exception of one class ends the loop
AfterCall_abort(i, raised) ==
  IF raised THEN 0 ELSE IF i < Len(MarketOrder) THEN i + 1 ELSE 0

\* the loop of run: the position after the call for class number i returned
\* or raised
AfterCall(i, raised) == IF i < Len(MarketOrder) THEN i + 1 ELSE 0

(* ------------------------------- state --------------------------------- *)

market == MarketOrder[idx]

NoDate == <<0, 0, 0>>

InitFiles(m) ==
  IF m = "US_Stocks"
  THEN { Absent, Corrupt,
         Json([r \in {"MSFT.O", "TSM.N"} |->
                 IF r = "MSFT.O"
                 THEN Entry("Microsoft", << <<<<2024, 1, 1>>, 100>> >>)
                 ELSE Entry("TSMC ADR", << <<<<2024, 1, 1>>, 100>>, <<<<2024, 3, 1>>, 100>> >>)]) }
  ELSE { Absent, Corrupt,
         Json([r \in {"US10YT=RR"} |-> Entry("UST 10Y", <<>>)]),
         Json([r \in {"US10YT=RR"} |-> Entry("UST 10Y", << <<<<2024, 1, 1>>, 100>> >>)]) }

InitRemote(m) ==
  IF m = "US_Stocks"
  THEN { Absent,
         Json([r \in {"MSFT.O"} |-> Entry("Microsoft", << <<<<2024, 3, 1>>, 100>> >>)]) }
  ELSE { Absent }

MergeIdle == m_phase = "off" /\ m_existing = <<>> /\ m_new = <<>> /\ m_out = <<>>

Init ==
  /\ files \in [Markets -> UNION { InitFiles(m) : m \in Markets }]
  /\ \A m \in Markets : files[m] \in InitFiles(m)
  /\ remote \in [Markets -> UNION { InitRemote(m) : m \in Markets }]
  /\ \A m \in Markets : remote[m] \in InitRemote(m)
  /\ github_token \in BOOLEAN
  /\ github_repo \in BOOLEAN
  /\ pc = "idle"
  /\ idx = 0
  /\ is_first_run = FALSE
  /\ today = NoDate
  /\ existing_data = EmptyDoc
  /\ start_date = NoDate
  /\ new_data = <<>>
  /\ merged_data = <<>>
  /\ files_before = files
  /\ saved = FALSE
  /\ puts = <<>>
  /\ failed = FALSE
  /\ calls = <<>>
  /\ runs = 0
  /\ MergeIdle

MergeVars == <<m_phase, m_existing, m_new, m_out>>

Config == <<github_token, github_repo>>

\* the locals of one process_market call, as they are when the call starts
FreshCall ==
  /\ existing_data' = EmptyDoc
  /\ start_date' = NoDate
  /\ new_data' = <<>>
  /\ merged_data' = <<>>
  /\ files_before' = files
  /\ saved' = FALSE
  /\ puts' = <<>>
  /\ failed' = FALSE

\* run: the banner and the first iteration of the loop over the classes
Run ==
  /\ pc = "idle"
  /\ runs < MaxRuns
  /\ \E first \in BOOLEAN : is_first_run' = first
  /\ runs' = runs + 1
  /\ idx' = 1
  /\ calls' = <<MarketOrder[1]>>
  /\ pc' = "load"
  /\ FreshCall
  /\ UNCHANGED <<files, remote, Config, today, MergeVars>>

\* the clock read by this call of process_market (datetime.now()), not before
\* the last reading
ClockNow == { now \in TodaySet : ~ StrLess(now, today) }

\* process_market, first part: load_existing_data and the start date; today
\* is the date the clock shows during this call
LoadExisting ==
  /\ pc = "load"
  /\ LET f == files[market] IN
       \/ /\ f.kind = "json"
          /\ existing_data' = f.doc
          /\ \E now \in ClockNow :
               /\ today' = now
               /\ start_date' = StartDateFor(is_first_run, f.doc, now)
          /\ pc' = "fetch"
          /\ UNCHANGED <<files, failed>>
       \/ /\ f.kind = "corrupt"
          /\ failed' = TRUE
          /\ pc' = "return"
          /\ UNCHANGED <<files, existing_data, start_date, today>>
       \/ /\ f.kind = "absent"
          /\ RemoteReadable(github_repo, github_token)
          /\ remote[market].kind = "json"
          /\ files' = [files EXCEPT ![market] = Json(remote[market].doc)]
          /\ existing_data' = remote[market].doc
          /\ \E now \in ClockNow :
               /\ today' = now
               /\ start_date' = StartDateFor(is_first_run, remote[market].doc, now)
          /\ pc' = "fetch"
          /\ UNCHANGED failed
       \/ /\ f.kind = "absent"
          /\ existing_data' = EmptyDoc
          /\ \E now \in ClockNow :
               /\ today' = now
               /\ start_date' = StartDateFor(is_first_run, EmptyDoc, now)
          /\ pc' = "fetch"
          /\ UNCHANGED <<files, failed>>
  /\ UNCHANGED <<remote, Config, idx, is_first_run, new_data, merged_data,
                 files_before, saved, puts, calls, runs, MergeVars>>

\* process_market, second part: the download and the merge loop
Download ==
  /\ pc = "fetch"
  /\ \E nd \in DownloadFor(market, start_date) :
       /\ new_data' = nd
       /\ merged_data' = MergeAll(existing_data, nd)
       /\ pc' = IF ShouldSave(MergeAll(existing_data, nd)) THEN "save" ELSE "return"
  /\ UNCHANGED <<files, remote, Config, idx, is_first_run, today, existing_data,
                 start_date, files_before, saved, puts, failed, calls, runs, MergeVars>>

save_to_json ==
  /\ pc = "save"
  /\ files' = [files EXCEPT ![market] = Json(convert_to_ric_format(merged_data))]
  /\ saved' = TRUE
  /\ pc' = "upload"
  /\ UNCHANGED <<remote, Config, idx, is_first_run, today, existing_data, start_date,
                 new_data, merged_data, files_before, puts, failed, calls, runs, MergeVars>>

upload_to_github ==
  /\ pc = "upload"
  /\ \/ /\ UploadSkipped(github_repo, github_token)
        /\ UNCHANGED <<remote, puts>>
     \/ /\ ~ UploadSkipped(github_repo, github_token)
        /\ \/ UNCHANGED <<remote, puts>>
           \/ /\ puts' = Append(puts, files[market].doc)
              /\ UNCHANGED remote
           \/ /\ puts' = Append(puts, files[market].doc)
              /\ remote' = [remote EXCEPT ![market] = Json(files[market].doc)]
  /\ pc' = "return"
  /\ UNCHANGED <<files, Config, idx, is_first_run, today, existing_data, start_date,
                 new_data, merged_data, files_before, saved, failed, calls, runs, MergeVars>>

\* run: the end of one iteration (normal return or caught exception), then
\* the next class or the end of the run
Continue ==
  /\ pc = "return"
  /\ idx' = AfterCall(idx, failed)
  /\ IF AfterCall(idx, failed) # 0
     THEN /\ pc' = "load"
          /\ calls' = Append(calls, MarketOrder[AfterCall(idx, failed)])
          /\ UNCHANGED is_first_run
     ELSE /\ pc' = "idle"
          /\ is_first_run' = FALSE
          /\ UNCHANGED calls
  /\ FreshCall
  /\ UNCHANGED <<files, remote, Config, today, runs, MergeVars>>

Next ==
  \/ Run
  \/ LoadExisting
  \/ Download
  \/ save_to_json
  \/ upload_to_github
  \/ Continue

Spec == Init /\ [][Next]_vars

(* ---------------- merge_data on its own, over all inputs --------------- *)

InitMerge ==
  /\ files = [m \in Markets |-> Absent]
  /\ remote = [m \in Markets |-> Absent]
  /\ github_token = FALSE
  /\ github_repo = FALSE
  /\ pc = "idle"
  /\ idx = 0
  /\ is_first_run = FALSE
  /\ today = NoDate
  /\ existing_data = EmptyDoc
  /\ start_date = NoDate
  /\ new_data = <<>>
  /\ merged_data = <<>>
  /\ files_before = files
  /\ saved = FALSE
  /\ puts = <<>>
  /\ failed = FALSE
  /\ calls = <<>>
  /\ runs = 0
  /\ m_phase = "in"
  /\ m_existing \in AllSeries
  /\ m_new \in AllSeries
  /\ m_out = <<>>

MergeCall ==
  /\ m_phase = "in"
  /\ m_out' = merge_data(m_existing, m_new, "MSFT")
  /\ m_phase' = "out"
  /\ UNCHANGED <<files, remote, Config, pc, idx, is_first_run, today, existing_data,
                 start_date, new_data, merged_data, files_before, saved, puts,
                 failed, calls, runs, m_existing, m_new>>

NextMerge == MergeCall

SpecMerge == InitMerge /\ [][NextMerge]_vars

TypeOK == pc \in {"idle", "load", "fetch", "save", "upload", "return"}

(* ------------------------------ properties ----------------------------- *)

ValidDate(d) == d[2] \in 1..12 /\ d[3] \in 1..DaysInMonth(d[1], d[2])

Ascending(s) == \A i \in 1..(Len(s) - 1) : StrLess(s[i][1], s[i + 1][1])

\* the call for the current class got past load_existing_data
Loaded == pc \in {"fetch", "save", "upload", "return"} /\ ~ failed

\* the call for the current class is over and its download took place
Returned == pc = "return" /\ ~ failed

FileNow == files[market]

FileBefore == files_before[market]

PriorIn(doc, ric) == IF ric \in DOMAIN doc THEN doc[ric].data ELSE <<>>

\* C1: every instrument of the persisted document before a call of
\* process_market is still in the persisted document after the call.
C1_InstrumentSetNeverShrinks ==
  pc = "return" => DOMAIN FileBefore.doc \subseteq DOMAIN FileNow.doc

\* C2: an instrument whose fetch failed or returned nothing, and that had a
\* persisted series before the call, has the same series persisted after it.
C2_FailedFetchKeepsPrior ==
  Returned =>
    \A t \in DOMAIN market_data[market] :
      (/\ t \notin DOMAIN new_data
       /\ RicOf(t) \in DOMAIN FileBefore.doc
       /\ FileBefore.doc[RicOf(t)].data # <<>>)
      => /\ RicOf(t) \in DOMAIN FileNow.doc
         /\ FileNow.doc[RicOf(t)].data = FileBefore.doc[RicOf(t)].data

\* C3: after the write, the series persisted under the canonical code of every
\* fetched instrument is the prior series of that code overlaid by the fresh
\* one: the dates are the union, each once, a common date carries the fresh
\* value, a date of the prior series alone keeps its value.
C3_PersistedIsOverlay ==
  saved =>
    \A t \in DOMAIN new_data :
      /\ RicOf(t) \in DOMAIN FileNow.doc
      /\ LET prior == PriorIn(existing_data, RicOf(t))
             fresh == new_data[t]
             out == FileNow.doc[RicOf(t)].data
         IN  /\ Keys(out) = Keys(prior) \cup Keys(fresh)
             /\ Len(out) = Cardinality(Keys(out))
             /\ \A k \in Keys(fresh) : Get(out, k) = Get(fresh, k)
             /\ \A k \in Keys(prior) \ Keys(fresh) : Get(out, k) = Get(prior, k)

\* one fetched instrument has a date of the fresh series alone, another has a
\* date of the prior series alone and a common date whose value changed
C3_Witness ==
  /\ saved
  /\ \E t \in DOMAIN new_data :
       Keys(new_data[t]) \ Keys(PriorIn(existing_data, RicOf(t))) # {}
  /\ \E t \in DOMAIN new_data :
       LET prior == PriorIn(existing_data, RicOf(t)) IN
         /\ Keys(prior) \ Keys(new_data[t]) # {}
         /\ \E k \in Keys(prior) \cap Keys(new_data[t]) :
              Get(prior, k) # Get(new_data[t], k)

\* C4: the date keys of the series merge_data returns are in strictly
\* ascending order, for every prior series and every fresh series in every
\* delivery order.
C4_MergedAscending == m_phase = "out" => Ascending(m_out)

\* C5 as stated: not a first run and an empty existing document give the
\* start date today - 1825 days.
C5_EmptyExistingFallsBack ==
  (Loaded /\ ~ is_first_run /\ DOMAIN existing_data = {})
  => (ValidDate(start_date) /\ strptime(start_date) + 1825 = strptime(today))

\* C5 amended: not a first run and a non-empty existing document none of
\* whose instruments has a non-empty series give the start date
\* today - 1825 days; not a first run and an empty existing document give
\* 2020-01-01.
C5_DegenerateFallsBack ==
  (Loaded /\ ~ is_first_run) =>
    /\ (DOMAIN existing_data # {} /\ \A r \in DOMAIN existing_data : existing_data[r].data = <<>>)
       => (ValidDate(start_date) /\ strptime(start_date) + 1825 = strptime(today))
    /\ DOMAIN existing_data = {} => start_date = <<2020, 1, 1>>

C5_Witness ==
  /\ pc = "fetch"
  /\ ~ is_first_run
  /\ DOMAIN existing_data # {}
  /\ \A r \in DOMAIN existing_data : existing_data[r].data = <<>>
  /\ idx = 2
  /\ today = <<2025, 3, 1>>
  /\ start_date = <<2020, 3, 2>>

\* C6: not a first run and some instrument with a non-empty series give the
\* start date one day before the largest date of all the series of the
\* existing document, so the window covers that date.
C6_StartIsDayBeforeMax ==
  (Loaded /\ ~ is_first_run /\ \E r \in DOMAIN existing_data : existing_data[r].data # <<>>)
  => LET all == UNION { Keys(existing_data[r].data) : r \in DOMAIN existing_data }
         mx == CHOOSE d \in all : \A o \in all : ~ StrLess(d, o)
     IN  /\ ValidDate(start_date)
         /\ strptime(start_date) + 1 = strptime(mx)
         /\ StrLess(start_date, mx)

\* two instruments whose latest dates differ; the day before 2024-03-01
C6_Witness ==
  /\ pc = "fetch"
  /\ ~ is_first_run
  /\ \E r1, r2 \in DOMAIN existing_data :
       /\ existing_data[r1].data # <<>>
       /\ existing_data[r2].data # <<>>
       /\ MaxKey(existing_data[r1].data) = <<2024, 1, 1>>
       /\ MaxKey(existing_data[r2].data) = <<2024, 3, 1>>
  /\ start_date = <<2024, 2, 29>>

\* C7: run calls process_market once per configured class in the configured
\* order and reaches its end whatever a class raised; a class that raised
\* leaves the files of the other classes as they were.
C7_EveryClassOnce ==
  /\ pc # "idle" => calls = SubSeq(MarketOrder, 1, idx)
  /\ (pc = "idle" /\ runs > 0) => calls = MarketOrder
  /\ (pc = "return" /\ failed) =>
       \A m \in Markets \ {market} : files[m] = files_before[m]

\* the first class raised and the second class was processed and written
C7_Witness ==
  /\ pc = "return"
  /\ idx = 2
  /\ saved
  /\ files[MarketOrder[1]].kind = "corrupt"

\* C8 as stated: an empty fresh fetch leaves the local file of the class as
\* it was before the call, writes nothing and publishes nothing.
C8_EmptyFetchNoWrite ==
  (Returned /\ DOMAIN new_data = {}) =>
    /\ FileNow = FileBefore
    /\ ~ saved
    /\ puts = <<>>

\* C8 amended: an empty fresh fetch makes the persist step write nothing and
\* publishes nothing; the local file is as before the call, except that a
\* file absent before the call holds the remote document when
\* load_existing_data read one.
C8_EmptyFetchNoPersist ==
  (Returned /\ DOMAIN new_data = {}) =>
    /\ ~ saved
    /\ puts = <<>>
    /\ \/ FileNow = FileBefore
       \/ /\ FileBefore.kind = "absent"
          /\ github_repo /\ github_token
          /\ remote[market].kind = "json"
          /\ FileNow = Json(remote[market].doc)

\* an existing document, nothing fetched, the file untouched
C8_Witness ==
  /\ Returned
  /\ DOMAIN new_data = {}
  /\ FileBefore.kind = "json"
  /\ DOMAIN FileBefore.doc # {}
  /\ FileNow = FileBefore

\* C9: a remote write request is issued only after the local write of the
\* same call, at most once, with both credentials configured, and carries
\* the content of the written file; the written file stays what save_to_json
\* wrote whatever the remote write did.
C9_PublishAfterWrite ==
  /\ puts # <<>> =>
       /\ saved
       /\ github_token /\ github_repo
       /\ Len(puts) = 1
       /\ FileNow.kind = "json"
       /\ puts[1] = FileNow.doc
  /\ saved => FileNow = Json(convert_to_ric_format(merged_data))

\* a remote write was requested and did not go through; the local file holds
\* the written document
C9_Witness ==
  /\ pc = "return"
  /\ saved
  /\ puts # <<>>
  /\ remote[market] # FileNow
  /\ DOMAIN FileNow.doc # {}

\* C10: every date persisted before the call for an instrument whose fetch
\* returned a series is still persisted for it after the call, first run or
\* not.
C10_FetchedKeepsDates ==
  saved =>
    \A t \in DOMAIN new_data :
      RicOf(t) \in DOMAIN FileBefore.doc
      => /\ RicOf(t) \in DOMAIN FileNow.doc
         /\ Keys(FileBefore.doc[RicOf(t)].data) \subseteq Keys(FileNow.doc[RicOf(t)].data)

\* a first run over the file an earlier run wrote: a fetched instrument keeps
\* a date that run fetched and this one did not
C10_Witness ==
  /\ saved
  /\ is_first_run
  /\ runs = 2
  /\ FileBefore.kind = "json"
  /\ \E t \in DOMAIN new_data :
       /\ RicOf(t) \in DOMAIN FileBefore.doc
       /\ \E k \in Keys(FileBefore.doc[RicOf(t)].data) \ Keys(new_data[t]) :
            /\ Get(FileBefore.doc[RicOf(t)].data, k) \in FreshValues
            /\ k \in Keys(FileNow.doc[RicOf(t)].data)

====
